---- MODULE Spec2Model ----
(***************************************************************************)
(* Model of the network-exporter BPF capture programs:                     *)
(*   tcpconn.bpf.c : probe_tcp_connect, probe_tcp_close  (struct event_t)  *)
(*   tcpflow.bpf.c : trace_tcp_probe              (struct tcp_probe_event) *)
(* Each object file declares a BPF_MAP_TYPE_RINGBUF map named `events`.    *)
(* A program builds its record on its own stack and hands it to            *)
(* bpf_ringbuf_output, which reserves a slot, copies the record and        *)
(* commits it.  Programs run to completion on the CPU that hit the hook,   *)
(* and several CPUs run programs at the same time.                         *)
(***************************************************************************)
EXTENDS Integers, Sequences, FiniteSets, TLC

VARIABLES cpu, ring, obsLog, ninv, nattempt, ncommit, kmem

vars == <<cpu, ring, obsLog, ninv, nattempt, ncommit, kmem>>

(***************************************************************************)
(* Bounds of the model.                                                    *)
(***************************************************************************)
\* records a ring holds before a reservation fails (stands for max_entries bytes)
RingSlots == 2
\* probe invocations in one behaviour
MaxInv == 3

CPUs == {"cpu0", "cpu1"}

(***************************************************************************)
(* Byte buffers.                                                           *)
(***************************************************************************)
Zero(n) == [i \in 1..n |-> 0]

\* __builtin_memcpy(dst, src, n): the first n bytes of dst are replaced
builtin_memcpy(dst, src, n) ==
    [i \in 1..Len(dst) |-> IF i <= n THEN src[i] ELSE dst[i]]

\* the string literals, as the bytes the compiler stores (with the final NUL)
StrClose == <<99, 108, 111, 115, 101, 0>>
StrConnectPasted == <<99, 108, 111, 115, 101, 0, 0, 0>>

StrConnect == <<99, 111, 110, 110, 101, 99, 116, 0>>

\* __builtin_bswap16 on a 16-bit value
bswap16_identity(x) == x

builtin_bswap16(x) == (x % 256) * 256 + (x \div 256)

(***************************************************************************)
(* Kernel objects the probes look at.                                      *)
(***************************************************************************)
Socks == {"sk4", "sk6", "skx"}

\* struct sock_common of each socket when the probes are attached; ports as
\* the 16-bit value stored
SockInit(s) ==
    CASE s = "sk4" ->
           [skc_num |-> 47873, skc_dport |-> 14535, skc_family |-> 2,
            skc_rcv_saddr |-> <<10, 0, 0, 1>>, skc_daddr |-> <<10, 0, 0, 2>>,
            skc_v6_rcv_saddr |-> [i \in 1..16 |-> IF i = 16 THEN 7 ELSE 0],
            skc_v6_daddr |-> [i \in 1..16 |-> IF i = 16 THEN 8 ELSE 0]]
      [] s = "sk6" ->
           [skc_num |-> 47873, skc_dport |-> 14535, skc_family |-> 10,
            skc_rcv_saddr |-> <<127, 0, 0, 6>>, skc_daddr |-> <<127, 0, 0, 6>>,
            skc_v6_rcv_saddr |-> [i \in 1..16 |-> IF i = 1 THEN 254 ELSE i],
            skc_v6_daddr |-> [i \in 1..16 |-> IF i = 1 THEN 253 ELSE i]]
      [] OTHER ->
           [skc_num |-> 80, skc_dport |-> 65535, skc_family |-> 1,
            skc_rcv_saddr |-> <<1, 2, 3, 4>>, skc_daddr |-> <<5, 6, 7, 8>>,
            skc_v6_rcv_saddr |-> [i \in 1..16 |-> 9],
            skc_v6_daddr |-> [i \in 1..16 |-> 11]]

\* the fields of the socket a probe reads with bpf_probe_read
ReadFields == {"sport", "dport", "family", "saddr", "daddr", "saddr_v6", "daddr_v6"}

Ctxs == {"ctx0", "ctxA", "ctxB"}

\* struct tcp_probe handed to the tracepoint program
CtxInit(x) ==
    CASE x = "ctx0" ->
           [saddr |-> [i \in 1..28 |-> i], daddr |-> [i \in 1..28 |-> 28 - i],
            sport |-> 443, dport |-> 51000, family |-> 2,
            data_len |-> 0, srtt |-> 25000]
      [] x = "ctxA" ->
           [saddr |-> [i \in 1..28 |-> i], daddr |-> [i \in 1..28 |-> 28 - i],
            sport |-> 443, dport |-> 51000, family |-> 2,
            data_len |-> 1460, srtt |-> 25000]
      [] OTHER ->
           [saddr |-> [i \in 1..28 |-> 2 * i], daddr |-> [i \in 1..28 |-> 3 * i],
            sport |-> 47873, dport |-> 22, family |-> 10,
            data_len |-> 65535, srtt |-> 1]

\* kernel memory: the sockets and the tracepoint contexts
KernelInit == [sock |-> [s \in Socks |-> SockInit(s)],
               ctx |-> [x \in Ctxs |-> CtxInit(x)]]

\* what sock_ptr->__sk_common and *ctx hold now
SockMem(s) == IF s \in Socks THEN kmem.sock[s] ELSE SockInit(s)

CtxMem(x) == IF x \in Ctxs THEN kmem.ctx[x] ELSE CtxInit(x)

\* kernel memory after a program ran on arg: the socket and the context are
\* only ever the source of a read, nothing is stored through sock_ptr or ctx
KernelAfterClobber(k, arg) ==
    [k EXCEPT !.sock = [s \in Socks |->
                          IF s = arg THEN [k.sock[s] EXCEPT !.skc_family = 0]
                          ELSE k.sock[s]]]

KernelAfter(k, arg) == k

\* the task current on each CPU: the two halves of bpf_get_current_pid_tgid()
bpf_get_current_pid_tgid(c) ==
    IF c = "cpu0" THEN [hi |-> 1234, lo |-> 1240] ELSE [hi |-> 77, lo |-> 77]

\* v >> 32 of a 64-bit value kept as its two 32-bit halves
Shr32(v) == v.hi

(***************************************************************************)
(* bpf_probe_read(dst, size, src): copies on success; on a fault the       *)
(* helper fills dst with zero bytes.  ok is the outcome of the read.       *)
(***************************************************************************)
ZeroLike(dst) == [i \in DOMAIN dst |-> 0]

bpf_probe_read_errfill(dst, src, ok) ==
    IF ok THEN src ELSE [i \in DOMAIN dst |-> 255]

bpf_probe_read(dst, src, ok) == IF ok THEN src ELSE ZeroLike(dst)

(***************************************************************************)
(* Integer fields are kept as little-endian byte sequences while they are  *)
(* read, as bpf_probe_read sees them, and as numbers in the record.        *)
(***************************************************************************)
Bytes16(v) == <<v % 256, v \div 256>>

U16(b) == b[1] + 256 * b[2]

(***************************************************************************)
(* tcpconn.bpf.c: struct event_t and the two kprobe programs.              *)
(***************************************************************************)
\* if (event.family == 2) and if (event.family == 10)
IsAfInetNot6(family) == family # 10

IsAfInet(family) == family = 2

IsAfInet6Always(family) == TRUE

IsAfInet6(family) == family = 10

\* struct event_t event = {};
ZeroEventT ==
    [shape |-> "event_t", pid |-> 0, sport |-> 0, dport |-> 0, family |-> 0,
     saddr |-> Zero(4), daddr |-> Zero(4),
     saddr_v6 |-> Zero(16), daddr_v6 |-> Zero(16), typ |-> Zero(16)]

\* the record probe_tcp_close has built when it reaches bpf_ringbuf_output;
\* fails is the set of fields whose bpf_probe_read faults
probe_tcp_close_event(c, s, fails) ==
    LET sk == SockMem(s)
        e0 == ZeroEventT
        e1 == [e0 EXCEPT !.pid = Shr32(bpf_get_current_pid_tgid(c))]
        e2 == [e1 EXCEPT !.sport = U16(bpf_probe_read(Bytes16(e1.sport),
                                   Bytes16(sk.skc_num), "sport" \notin fails))]
        e3 == [e2 EXCEPT !.dport = U16(bpf_probe_read(Bytes16(e2.dport),
                                   Bytes16(sk.skc_dport), "dport" \notin fails))]
        e4 == [e3 EXCEPT !.sport = builtin_bswap16(e3.sport),
                         !.dport = builtin_bswap16(e3.dport)]
        e5 == [e4 EXCEPT !.family = U16(bpf_probe_read(Bytes16(e4.family),
                                   Bytes16(sk.skc_family), "family" \notin fails))]
        e6 == IF IsAfInet(e5.family)
              THEN [e5 EXCEPT
                     !.saddr = bpf_probe_read(e5.saddr, sk.skc_rcv_saddr,
                                              "saddr" \notin fails),
                     !.daddr = bpf_probe_read(e5.daddr, sk.skc_daddr,
                                              "daddr" \notin fails)]
              ELSE e5
        e7 == IF IsAfInet6(e6.family)
              THEN [e6 EXCEPT
                     !.saddr_v6 = bpf_probe_read(e6.saddr_v6, sk.skc_v6_rcv_saddr,
                                                 "saddr_v6" \notin fails),
                     !.daddr_v6 = bpf_probe_read(e6.daddr_v6, sk.skc_v6_daddr,
                                                 "daddr_v6" \notin fails)]
              ELSE e6
    IN  [e7 EXCEPT !.typ = builtin_memcpy(e7.typ, StrClose, Len(StrClose) - 1)]

\* probe_tcp_connect with the IPv4 source fields exchanged
probe_tcp_connect_event_swapped(c, s, fails) ==
    LET sk == SockMem(s)
        e0 == ZeroEventT
        e1 == [e0 EXCEPT !.pid = Shr32(bpf_get_current_pid_tgid(c))]
        e2 == [e1 EXCEPT !.sport = U16(bpf_probe_read(Bytes16(e1.sport),
                                   Bytes16(sk.skc_num), "sport" \notin fails))]
        e3 == [e2 EXCEPT !.dport = U16(bpf_probe_read(Bytes16(e2.dport),
                                   Bytes16(sk.skc_dport), "dport" \notin fails))]
        e4 == [e3 EXCEPT !.sport = builtin_bswap16(e3.sport),
                         !.dport = builtin_bswap16(e3.dport)]
        e5 == [e4 EXCEPT !.family = U16(bpf_probe_read(Bytes16(e4.family),
                                   Bytes16(sk.skc_family), "family" \notin fails))]
        e6 == IF IsAfInet(e5.family)
              THEN [e5 EXCEPT
                     !.saddr = bpf_probe_read(e5.saddr, sk.skc_daddr,
                                              "saddr" \notin fails),
                     !.daddr = bpf_probe_read(e5.daddr, sk.skc_rcv_saddr,
                                              "daddr" \notin fails)]
              ELSE e5
        e7 == IF IsAfInet6(e6.family)
              THEN [e6 EXCEPT
                     !.saddr_v6 = bpf_probe_read(e6.saddr_v6, sk.skc_v6_rcv_saddr,
                                                 "saddr_v6" \notin fails),
                     !.daddr_v6 = bpf_probe_read(e6.daddr_v6, sk.skc_v6_daddr,
                                                 "daddr_v6" \notin fails)]
              ELSE e6
    IN  [e7 EXCEPT !.typ = builtin_memcpy(e7.typ, StrConnect, Len(StrConnect) - 1)]

\* the record probe_tcp_connect has built when it reaches bpf_ringbuf_output
probe_tcp_connect_event(c, s, fails) ==
    LET sk == SockMem(s)
        e0 == ZeroEventT
        e1 == [e0 EXCEPT !.pid = Shr32(bpf_get_current_pid_tgid(c))]
        e2 == [e1 EXCEPT !.sport = U16(bpf_probe_read(Bytes16(e1.sport),
                                   Bytes16(sk.skc_num), "sport" \notin fails))]
        e3 == [e2 EXCEPT !.dport = U16(bpf_probe_read(Bytes16(e2.dport),
                                   Bytes16(sk.skc_dport), "dport" \notin fails))]
        e4 == [e3 EXCEPT !.sport = builtin_bswap16(e3.sport),
                         !.dport = builtin_bswap16(e3.dport)]
        e5 == [e4 EXCEPT !.family = U16(bpf_probe_read(Bytes16(e4.family),
                                   Bytes16(sk.skc_family), "family" \notin fails))]
        e6 == IF IsAfInet(e5.family)
              THEN [e5 EXCEPT
                     !.saddr = bpf_probe_read(e5.saddr, sk.skc_rcv_saddr,
                                              "saddr" \notin fails),
                     !.daddr = bpf_probe_read(e5.daddr, sk.skc_daddr,
                                              "daddr" \notin fails)]
              ELSE e5
        e7 == IF IsAfInet6(e6.family)
              THEN [e6 EXCEPT
                     !.saddr_v6 = bpf_probe_read(e6.saddr_v6, sk.skc_v6_rcv_saddr,
                                                 "saddr_v6" \notin fails),
                     !.daddr_v6 = bpf_probe_read(e6.daddr_v6, sk.skc_v6_daddr,
                                                 "daddr_v6" \notin fails)]
              ELSE e6
    IN  [e7 EXCEPT !.typ = builtin_memcpy(e7.typ, StrConnect, Len(StrConnect) - 1)]

\* the reads a kprobe program attempts on socket s when the reads in fails fault
ConnAttempted(s, fails) ==
    LET fam == IF "family" \in fails THEN 0 ELSE SockMem(s).skc_family
    IN  {"sport", "dport", "family"}
          \cup (IF fam = 2 THEN {"saddr", "daddr"} ELSE {})
          \cup (IF fam = 10 THEN {"saddr_v6", "daddr_v6"} ELSE {})

(***************************************************************************)
(* tcpflow.bpf.c: struct tcp_probe_event and the tracepoint program.       *)
(***************************************************************************)
\* struct tcp_probe_event event = {};
ZeroProbeEventNoInit ==
    [shape |-> "tcp_probe_event", saddr |-> Zero(28), daddr |-> Zero(28),
     sport |-> 0, dport |-> 0, family |-> 0, reason |-> 43690,
     data_len |-> 0, srtt |-> 0, pid |-> 0]

ZeroProbeEvent ==
    [shape |-> "tcp_probe_event", saddr |-> Zero(28), daddr |-> Zero(28),
     sport |-> 0, dport |-> 0, family |-> 0, reason |-> 0,
     data_len |-> 0, srtt |-> 0, pid |-> 0]

\* a __u16 assigned to a __u32: the 16 bits, zero-extended
ZeroExtend16(v) == v % 65536

\* if (ctx->data_len == 0) return 0;
FlowSuppressedNever(ctx) == FALSE

FlowSuppressed(ctx) == ctx.data_len = 0

\* trace_tcp_probe with the ports byte-swapped as the kprobe programs do
trace_tcp_probe_event_bswap(c, x) ==
    LET ctx == CtxMem(x)
        e0 == ZeroProbeEvent
        e1 == [e0 EXCEPT !.saddr = bpf_probe_read(e0.saddr, ctx.saddr, TRUE),
                         !.daddr = bpf_probe_read(e0.daddr, ctx.daddr, TRUE)]
    IN  [e1 EXCEPT !.sport = builtin_bswap16(ctx.sport),
                   !.dport = builtin_bswap16(ctx.dport),
                   !.family = ctx.family,
                   !.data_len = ZeroExtend16(ctx.data_len),
                   !.srtt = ctx.srtt,
                   !.pid = Shr32(bpf_get_current_pid_tgid(c))]

\* the record trace_tcp_probe has built when it reaches bpf_ringbuf_output;
\* the context is the program's own argument, so these reads do not fault
trace_tcp_probe_event(c, x) ==
    LET ctx == CtxMem(x)
        e0 == ZeroProbeEvent
        e1 == [e0 EXCEPT !.saddr = bpf_probe_read(e0.saddr, ctx.saddr, TRUE),
                         !.daddr = bpf_probe_read(e0.daddr, ctx.daddr, TRUE)]
    IN  [e1 EXCEPT !.sport = ctx.sport, !.dport = ctx.dport,
                   !.family = ctx.family,
                   !.data_len = ZeroExtend16(ctx.data_len),
                   !.srtt = ctx.srtt,
                   !.pid = Shr32(bpf_get_current_pid_tgid(c))]

(***************************************************************************)
(* The ring buffers.  tcpconn.bpf.c and tcpflow.bpf.c each declare their   *)
(* own map called events.                                                  *)
(***************************************************************************)
ConnEvents == "tcpconn.events"

FlowEvents == "tcpflow.events"

Maps == {ConnEvents, FlowEvents}

\* the map a program names in bpf_ringbuf_output(&events, ...)
EventsMapShared(prog) == ConnEvents

EventsMap(prog) == IF prog = "trace_tcp_probe" THEN FlowEvents ELSE ConnEvents

\* sizeof(struct event_t) and sizeof(struct tcp_probe_event)
SizeofEventT == 68

SizeofProbeEvent == 76

\* the size handed to bpf_ringbuf_output: sizeof(event)
SizeofPointer(e) == 8

Sizeof(e) == IF e.shape = "event_t" THEN SizeofEventT ELSE SizeofProbeEvent

\* -EAGAIN, what bpf_ringbuf_output returns when the reservation fails
EAGAIN == 11

NoEvent == [shape |-> "none"]

\* the bytes of a slot that has been reserved and not yet written
Stale == [shape |-> "stale"]

IdleCpu(retval) ==
    [pc |-> "idle", prog |-> "none", arg |-> "none", fails |-> {},
     event |-> NoEvent, pos |-> -1, rc |-> 0, attempts |-> 0, emitted |-> 0,
     full |-> FALSE, steps |-> 0, retval |-> retval]

Init ==
    /\ cpu = [c \in CPUs |-> IdleCpu(-1)]
    /\ ring = [m \in Maps |-> [prod_pos |-> 0, recs |-> <<>>]]
    /\ obsLog = [m \in Maps |-> <<>>]
    /\ ninv = 0
    /\ nattempt = 0
    /\ ncommit = 0
    /\ kmem = KernelInit

(***************************************************************************)
(* Program entry up to the call of bpf_ringbuf_output.                     *)
(***************************************************************************)
probe_tcp_connect(c, s, fails) ==
    /\ cpu[c].pc = "idle"
    /\ ninv < MaxInv
    /\ cpu' = [cpu EXCEPT ![c] =
                 [@ EXCEPT !.pc = "output", !.prog = "probe_tcp_connect",
                           !.arg = s, !.fails = fails \cap ConnAttempted(s, fails),
                           !.event = probe_tcp_connect_event(c, s, fails)]]
    /\ ninv' = ninv + 1
    /\ kmem' = KernelAfter(kmem, s)
    /\ UNCHANGED <<ring, obsLog, nattempt, ncommit>>

probe_tcp_close(c, s, fails) ==
    /\ cpu[c].pc = "idle"
    /\ ninv < MaxInv
    /\ cpu' = [cpu EXCEPT ![c] =
                 [@ EXCEPT !.pc = "output", !.prog = "probe_tcp_close",
                           !.arg = s, !.fails = fails \cap ConnAttempted(s, fails),
                           !.event = probe_tcp_close_event(c, s, fails)]]
    /\ ninv' = ninv + 1
    /\ kmem' = KernelAfter(kmem, s)
    /\ UNCHANGED <<ring, obsLog, nattempt, ncommit>>

trace_tcp_probe(c, x) ==
    /\ cpu[c].pc = "idle"
    /\ ninv < MaxInv
    /\ cpu' = [cpu EXCEPT ![c] =
                 IF FlowSuppressed(CtxMem(x))
                 THEN [@ EXCEPT !.pc = "ret", !.prog = "trace_tcp_probe",
                                !.arg = x, !.rc = 0]
                 ELSE [@ EXCEPT !.pc = "output", !.prog = "trace_tcp_probe",
                                !.arg = x,
                                !.event = trace_tcp_probe_event(c, x)]]
    /\ ninv' = ninv + 1
    /\ kmem' = KernelAfter(kmem, x)
    /\ UNCHANGED <<ring, obsLog, nattempt, ncommit>>

(***************************************************************************)
(* bpf_ringbuf_output(&events, &event, sizeof(event), 0): reserve a slot   *)
(* (or fail with -EAGAIN), copy the record into it, commit it.             *)
(***************************************************************************)
HasSpace(rb) == Len(rb.recs) < RingSlots

\* the slot header and body right after the reservation
ReservedSlotNotBusy(c, rb) ==
    [pos |-> rb.prod_pos, busy |-> FALSE, len |-> Sizeof(cpu[c].event),
     data |-> Stale, owner |-> c, prog |-> cpu[c].prog, arg |-> cpu[c].arg,
     fails |-> cpu[c].fails, built |-> cpu[c].event,
     committed |-> FALSE, cseq |-> -1]

ReservedSlot(c, rb) ==
    [pos |-> rb.prod_pos, busy |-> TRUE, len |-> Sizeof(cpu[c].event),
     data |-> Stale, owner |-> c, prog |-> cpu[c].prog, arg |-> cpu[c].arg,
     fails |-> cpu[c].fails, built |-> cpu[c].event,
     committed |-> FALSE, cseq |-> -1]

\* the ring after a reservation: the new slot follows every earlier one
RingAfterReserveLifo(c, rb) ==
    [prod_pos |-> rb.prod_pos + 1, recs |-> <<ReservedSlot(c, rb)>> \o rb.recs]

RingAfterReserve(c, rb) ==
    [prod_pos |-> rb.prod_pos + 1, recs |-> Append(rb.recs, ReservedSlot(c, rb))]

\* where the program goes once bpf_ringbuf_output has returned rc
AfterOutputRetry(rc) == IF rc # 0 THEN "output" ELSE "ret"

AfterOutput(rc) == "ret"

\* bpf_ringbuf_output never waits for room: with the ring full it returns
\* at once, so the call can always proceed
MayReserveWhenRoom(rb) == HasSpace(rb)

MayReserve(rb) == TRUE

ringbuf_reserve(c) ==
    /\ cpu[c].pc = "output"
    /\ MayReserve(ring[EventsMap(cpu[c].prog)])
    /\ LET m == EventsMap(cpu[c].prog)
       IN  IF HasSpace(ring[m])
           THEN /\ ring' = [ring EXCEPT ![m] = RingAfterReserve(c, ring[m])]
                /\ cpu' = [cpu EXCEPT ![c] =
                             [@ EXCEPT !.pc = "copy", !.pos = ring[m].prod_pos,
                                       !.attempts = @ + 1, !.steps = @ + 1]]
           ELSE /\ ring' = ring
                /\ cpu' = [cpu EXCEPT ![c] =
                             [@ EXCEPT !.pc = AfterOutput(-EAGAIN), !.rc = -EAGAIN,
                                       !.attempts = @ + 1, !.steps = @ + 1, !.full = TRUE]]
    /\ nattempt' = nattempt + 1
    /\ UNCHANGED <<obsLog, ninv, ncommit, kmem>>

\* the index in rb.recs of the slot at position pos
SlotIndex(rb, pos) == CHOOSE i \in 1..Len(rb.recs) : rb.recs[i].pos = pos

\* memcpy of the record into the reserved slot
CopiedTorn(e) == [e EXCEPT !.pid = 0]

Copied(e) == e

ringbuf_copy(c) ==
    /\ cpu[c].pc = "copy"
    /\ LET m == EventsMap(cpu[c].prog)
           i == SlotIndex(ring[m], cpu[c].pos)
       IN  ring' = [ring EXCEPT ![m].recs[i].data = Copied(cpu[c].event)]
    /\ cpu' = [cpu EXCEPT ![c] = [@ EXCEPT !.pc = "commit", !.steps = @ + 1]]
    /\ UNCHANGED <<obsLog, ninv, nattempt, ncommit, kmem>>

ringbuf_commit(c) ==
    /\ cpu[c].pc = "commit"
    /\ LET m == EventsMap(cpu[c].prog)
           i == SlotIndex(ring[m], cpu[c].pos)
       IN  ring' = [ring EXCEPT ![m].recs[i].busy = FALSE,
                                ![m].recs[i].committed = TRUE,
                                ![m].recs[i].cseq = ncommit]
    /\ cpu' = [cpu EXCEPT ![c] =
                 [@ EXCEPT !.pc = AfterOutput(0), !.rc = 0, !.emitted = @ + 1,
                           !.steps = @ + 1]]
    /\ ncommit' = ncommit + 1
    /\ UNCHANGED <<obsLog, ninv, nattempt, kmem>>

\* return 0;
ProbeReturnPropagate(rc) == rc

ProbeReturn(rc) == 0

Return(c) ==
    /\ cpu[c].pc = "ret"
    /\ cpu' = [cpu EXCEPT ![c] = IdleCpu(ProbeReturn(cpu[c].rc))]
    /\ UNCHANGED <<ring, obsLog, ninv, nattempt, ncommit, kmem>>

(***************************************************************************)
(* The consumer of a ring: it reads the oldest slot once that slot is no   *)
(* longer busy, and frees it.                                              *)
(***************************************************************************)
ObsEntry(r) ==
    [pos |-> r.pos, cseq |-> r.cseq, prog |-> r.prog, len |-> r.len,
     committed |-> r.committed, intact |-> r.data = r.built]

Consume(m) ==
    /\ ring[m].recs # <<>>
    /\ ~Head(ring[m].recs).busy
    /\ obsLog' = [obsLog EXCEPT ![m] = Append(@, ObsEntry(Head(ring[m].recs)))]
    /\ ring' = [ring EXCEPT ![m].recs = Tail(@)]
    /\ UNCHANGED <<cpu, ninv, nattempt, ncommit, kmem>>

(***************************************************************************)
(* Spec: two CPUs, every program, rings that fill up.  The sockets and     *)
(* read faults are few here; SpecEnc runs the programs on all of them.     *)
(***************************************************************************)
SpecSocks == {"sk4"}

SpecFails == {{}, {"family"}}

SpecCtxs == {"ctx0", "ctxA"}

Next ==
    \/ \E c \in CPUs, s \in SpecSocks, fails \in SpecFails :
          probe_tcp_connect(c, s, fails)
    \/ \E c \in CPUs, s \in SpecSocks, fails \in SpecFails :
          probe_tcp_close(c, s, fails)
    \/ \E c \in CPUs, x \in SpecCtxs : trace_tcp_probe(c, x)
    \/ \E c \in CPUs : ringbuf_reserve(c)
    \/ \E c \in CPUs : ringbuf_copy(c)
    \/ \E c \in CPUs : ringbuf_commit(c)
    \/ \E c \in CPUs : Return(c)
    \/ \E m \in Maps : Consume(m)

Spec == Init /\ [][Next]_vars

\* the steps of the program running on CPU c; a program is not preempted and
\* runs on to its return, whatever other CPUs and the consumer do
CpuStep(c) ==
    \/ ringbuf_reserve(c)
    \/ ringbuf_copy(c)
    \/ ringbuf_commit(c)
    \/ Return(c)

(***************************************************************************)
(* SpecEnc: one invocation, of any program on any CPU, on every socket or  *)
(* context and with every combination of faulting reads.                   *)
(***************************************************************************)
InitOne ==
    /\ cpu = [c \in CPUs |-> IdleCpu(-1)]
    /\ ring = [m \in Maps |-> [prod_pos |-> 0, recs |-> <<>>]]
    /\ obsLog = [m \in Maps |-> <<>>]
    /\ ninv = MaxInv - 1
    /\ nattempt = 0
    /\ ncommit = 0
    /\ kmem = KernelInit

NextEnc ==
    \/ \E c \in CPUs, s \in Socks, fails \in SUBSET ReadFields :
          probe_tcp_connect(c, s, fails)
    \/ \E c \in CPUs, s \in Socks, fails \in SUBSET ReadFields :
          probe_tcp_close(c, s, fails)
    \/ \E c \in CPUs, x \in Ctxs : trace_tcp_probe(c, x)
    \/ \E c \in CPUs : ringbuf_reserve(c)
    \/ \E c \in CPUs : ringbuf_copy(c)
    \/ \E c \in CPUs : ringbuf_commit(c)
    \/ \E c \in CPUs : Return(c)
    \/ \E m \in Maps : Consume(m)

SpecEnc == InitOne /\ [][NextEnc]_vars

(***************************************************************************)
(* What the properties speak of.                                           *)
(***************************************************************************)
Slots(m) == {ring[m].recs[i] : i \in 1..Len(ring[m].recs)}

\* the records a program has handed over: the committed slots
Emitted(m) == {r \in Slots(m) : r.committed}

ConnProgs == {"probe_tcp_connect", "probe_tcp_close"}

EmittedConn == {r \in UNION {Emitted(m) : m \in Maps} : r.prog \in ConnProgs}

\* the value a 16-bit field stored as v in network order has on the host
HostOrder(v) == CHOOSE h \in 0..65535 : h \div 256 = v % 256 /\ h % 256 = v \div 256

\* C1: a flow sample with data_len = 0 builds no record and makes no
\* reservation or write: the invocation goes straight to its return, and no
\* slot of any ring, at any time, comes from such a sample.
C1_ZeroLenSampleWritesNothing ==
    /\ \A c \in CPUs :
          (cpu[c].prog = "trace_tcp_probe" /\ CtxMem(cpu[c].arg).data_len = 0)
            => /\ cpu[c].pc = "ret"
               /\ cpu[c].event = NoEvent
               /\ cpu[c].attempts = 0
               /\ cpu[c].emitted = 0
    /\ \A m \in Maps : \A r \in Slots(m) :
          r.prog = "trace_tcp_probe" => CtxMem(r.arg).data_len # 0

\* a zero-length sample is being handled while another producer's flow
\* record sits in the ring
C1_Witness ==
    \E c \in CPUs :
       /\ cpu[c].prog = "trace_tcp_probe"
       /\ CtxMem(cpu[c].arg).data_len = 0
       /\ cpu[c].pc = "ret"
       /\ ring[FlowEvents].recs # <<>>

\* C2: in every emitted ConnEvent, family = 2 implies saddr_v6 and daddr_v6
\* are all zero, and family = 10 implies saddr and daddr are all zero,
\* whatever the socket and whichever reads fault.
C2_AddressFamiliesExclusive ==
    \A r \in EmittedConn :
       /\ r.data.family = 2
            => r.data.saddr_v6 = Zero(16) /\ r.data.daddr_v6 = Zero(16)
       /\ r.data.family = 10
            => r.data.saddr = Zero(4) /\ r.data.daddr = Zero(4)

\* an IPv6 record with its addresses read, from a socket whose IPv4 fields
\* are not zero
C2_Witness ==
    \E r \in EmittedConn :
       /\ r.data.family = 10
       /\ r.data.saddr_v6 # Zero(16)
       /\ SockMem(r.arg).skc_rcv_saddr # Zero(4)
       /\ r.data.saddr = Zero(4)

\* the swap of every 16-bit value has that value's two bytes, exchanged
SwapExchangesBytes ==
    \A v \in 0..65535 :
       /\ builtin_bswap16(v) \in 0..65535
       /\ builtin_bswap16(v) \div 256 = v % 256
       /\ builtin_bswap16(v) % 256 = v \div 256

\* C3: when the port reads succeed, sport and dport of the emitted ConnEvent
\* are the byte swap of the 16-bit values read from the socket, for every
\* 16-bit value; a local port stored as 0xBB01 is emitted as 443.
C3_PortsByteSwapped ==
    /\ SwapExchangesBytes
    /\ \A r \in EmittedConn :
         /\ "sport" \notin r.fails
              => /\ r.data.sport = HostOrder(SockMem(r.arg).skc_num)
                 /\ (SockMem(r.arg).skc_num = 47873 => r.data.sport = 443)
         /\ "dport" \notin r.fails
              => r.data.dport = HostOrder(SockMem(r.arg).skc_dport)

C3_Witness ==
    \E r \in EmittedConn :
       /\ r.fails = {}
       /\ SockMem(r.arg).skc_num = 47873
       /\ r.data.sport = 443
       /\ r.data.dport = 51000

\* the value each field of the record has when its read succeeds
Expected(s, f) ==
    CASE f = "sport" -> HostOrder(SockMem(s).skc_num)
      [] f = "dport" -> HostOrder(SockMem(s).skc_dport)
      [] f = "family" -> SockMem(s).skc_family
      [] f = "saddr" -> SockMem(s).skc_rcv_saddr
      [] f = "daddr" -> SockMem(s).skc_daddr
      [] f = "saddr_v6" -> SockMem(s).skc_v6_rcv_saddr
      [] OTHER -> SockMem(s).skc_v6_daddr

FieldOf(e, f) ==
    CASE f = "sport" -> e.sport
      [] f = "dport" -> e.dport
      [] f = "family" -> e.family
      [] f = "saddr" -> e.saddr
      [] f = "daddr" -> e.daddr
      [] f = "saddr_v6" -> e.saddr_v6
      [] OTHER -> e.daddr_v6

ZeroField(f) ==
    CASE f \in {"sport", "dport", "family"} -> 0
      [] f \in {"saddr", "daddr"} -> Zero(4)
      [] OTHER -> Zero(16)

\* C8: a faulting read does not abort probe_tcp_connect or probe_tcp_close:
\* the program still calls bpf_ringbuf_output once, the field whose read
\* faulted is zero in the record, and the fields whose reads succeeded hold
\* the socket's values.
C8_FailedReadLeavesZero ==
    /\ \A c \in CPUs :
          cpu[c].prog \in ConnProgs
            => /\ cpu[c].pc \in {"output", "copy", "commit", "ret"}
               /\ cpu[c].pc # "output" => cpu[c].attempts = 1
               /\ cpu[c].pc = "ret" => cpu[c].emitted = 1 \/ cpu[c].full
    /\ \A r \in EmittedConn :
          \A f \in ConnAttempted(r.arg, r.fails) :
             FieldOf(r.data, f) = IF f \in r.fails THEN ZeroField(f)
                                  ELSE Expected(r.arg, f)

\* a record emitted although the read of the local port faulted
C8_Witness ==
    \E r \in EmittedConn :
       /\ r.fails = {"sport"}
       /\ r.data.sport = 0
       /\ r.data.dport = 51000
       /\ r.data.family = 2
       /\ r.data.saddr = <<10, 0, 0, 1>>

C5_VisibleOnlyAfterCommit ==
    /\ \A m \in Maps : \A r \in Slots(m) :
          ~r.busy => r.committed /\ r.data # Stale
    /\ \A m \in Maps : \A i \in 1..Len(obsLog[m]) : obsLog[m][i].committed

\* both CPUs are between reservation and commit on the same ring, behind a
\* record the consumer has already read
C5_Witness ==
    \E m \in Maps :
       /\ Len(obsLog[m]) >= 1
       /\ \A c \in CPUs : cpu[c].pc \in {"copy", "commit"} /\ EventsMap(cpu[c].prog) = m
       /\ \A r \in Slots(m) : r.busy

\* C6: every record the consumer observes is the complete record one
\* invocation built (of the size of its struct), no reservation is observed
\* twice, and the records observed never outnumber the submissions attempted.
C6_ObservedCompleteAndOnce ==
    /\ \A m \in Maps : \A i \in 1..Len(obsLog[m]) :
          /\ obsLog[m][i].intact
          /\ obsLog[m][i].len =
               (IF obsLog[m][i].prog \in ConnProgs THEN SizeofEventT
                ELSE SizeofProbeEvent)
    /\ \A m \in Maps : \A i, j \in 1..Len(obsLog[m]) :
          i # j => obsLog[m][i].pos # obsLog[m][j].pos
    /\ Len(obsLog[ConnEvents]) + Len(obsLog[FlowEvents]) <= nattempt

\* production has exceeded the capacity (a submission was dropped) and the
\* consumer has observed a record
C6_Witness ==
    /\ \E c \in CPUs : cpu[c].full
    /\ \E m \in Maps : Len(obsLog[m]) >= 1

\* C7: a submission to a full ring fails and drops that record: the rings and
\* what the consumer has seen are unchanged by it, the invocation makes no
\* second attempt, and it returns 0 as an invocation that emitted does.
C7_FullRingDropsRecord ==
    [][\A c \in CPUs :
         /\ (cpu[c].pc = "output" /\ cpu'[c].full)
              => /\ ring' = ring
                 /\ obsLog' = obsLog
                 /\ cpu'[c].pc = "ret"
                 /\ cpu'[c].attempts = 1
                 /\ cpu'[c].emitted = 0
         /\ (cpu[c].pc = "ret" /\ cpu'[c].pc # "ret")
              => /\ cpu'[c].pc = "idle"
                 /\ cpu'[c].retval = 0
                 /\ ring' = ring]_vars

\* an invocation whose submission found the ring full
C7_Witness ==
    \E c \in CPUs :
       /\ cpu[c].pc = "ret"
       /\ cpu[c].full
       /\ Len(ring[EventsMap(cpu[c].prog)].recs) = RingSlots

\* the original statement of C9: connect, close and flow records are written
\* into one and the same ring
C9_SingleSharedRing ==
    \A m1, m2 \in Maps :
       (ring[m1].prod_pos > 0 /\ ring[m2].prod_pos > 0) => m1 = m2

\* C9 (amended): probe_tcp_connect and probe_tcp_close write into the events
\* ring of tcpconn.bpf.c, and trace_tcp_probe writes into the separate events
\* ring of tcpflow.bpf.c.
C9_OneRingPerObject ==
    /\ \A r \in Slots(ConnEvents) : r.prog \in ConnProgs
    /\ \A r \in Slots(FlowEvents) : r.prog = "trace_tcp_probe"
    /\ \A i \in 1..Len(obsLog[ConnEvents]) : obsLog[ConnEvents][i].prog \in ConnProgs
    /\ \A i \in 1..Len(obsLog[FlowEvents]) :
          obsLog[FlowEvents][i].prog = "trace_tcp_probe"

\* a connect and a close record share one ring while a flow record is in
\* the other
C9_Witness ==
    /\ \E r \in Emitted(ConnEvents) : r.prog = "probe_tcp_connect"
    /\ \E r \in Emitted(ConnEvents) : r.prog = "probe_tcp_close"
    /\ \E r \in Emitted(FlowEvents) : r.prog = "trace_tcp_probe"

\* C10: an invocation of probe_tcp_connect or probe_tcp_close calls
\* bpf_ringbuf_output exactly once: when it returns it has emitted one
\* ConnEvent if the ring had room and none if it was full.
C10_OneSubmissionPerInvocation ==
    \A c \in CPUs :
       cpu[c].prog \in ConnProgs
         => /\ cpu[c].attempts <= 1
            /\ cpu[c].emitted <= 1
            /\ cpu[c].pc = "ret"
                 => /\ cpu[c].attempts = 1
                    /\ cpu[c].emitted = (IF cpu[c].full THEN 0 ELSE 1)
                    /\ Cardinality({r \in Slots(ConnEvents) :
                                      r.owner = c /\ r.pos = cpu[c].pos})
                         <= 1

\* one invocation has emitted its record while another was dropped
C10_Witness ==
    \E c, d \in CPUs :
       /\ cpu[c].prog \in ConnProgs /\ cpu[c].pc = "ret" /\ cpu[c].emitted = 1
       /\ cpu[d].prog \in ConnProgs /\ cpu[d].pc = "ret" /\ cpu[d].full

EmittedFlow ==
    {r \in UNION {Emitted(m) : m \in Maps} : r.prog = "trace_tcp_probe"}

\* C11: a flow sample with data_len # 0 emits, when the ring has room,
\* exactly one FlowEvent whose sport, dport, family, data_len and srtt are
\* the context's values unchanged and whose saddr and daddr are the
\* context's 28-byte buffers, whatever the family.
C11_FlowSampleCopiedVerbatim ==
    /\ \A r \in EmittedFlow :
          /\ r.data.sport = CtxMem(r.arg).sport
          /\ r.data.dport = CtxMem(r.arg).dport
          /\ r.data.family = CtxMem(r.arg).family
          /\ r.data.data_len = CtxMem(r.arg).data_len
          /\ r.data.srtt = CtxMem(r.arg).srtt
          /\ r.data.saddr = CtxMem(r.arg).saddr
          /\ r.data.daddr = CtxMem(r.arg).daddr
          /\ Len(r.data.saddr) = 28 /\ Len(r.data.daddr) = 28
    /\ \A c \in CPUs :
          (/\ cpu[c].prog = "trace_tcp_probe"
           /\ CtxMem(cpu[c].arg).data_len # 0
           /\ cpu[c].pc = "ret")
            => /\ cpu[c].attempts = 1
               /\ cpu[c].emitted = (IF cpu[c].full THEN 0 ELSE 1)

\* the sample with data_len = 1460 and srtt = 25000 has been emitted once
C11_Witness ==
    \E c \in CPUs : \E r \in EmittedFlow :
       /\ cpu[c].pc = "ret" /\ cpu[c].emitted = 1 /\ r.owner = c
       /\ r.data.data_len = 1460
       /\ r.data.srtt = 25000
       /\ r.data.sport = 443

\* C12: an invocation never waits: in every state, whatever the consumer has
\* or has not done and whether or not the ring is full, the program's next
\* step can be taken, and at most three steps of bpf_ringbuf_output lie
\* between its entry and its return.
C12_NeverStallsBoundedSteps ==
    \A c \in CPUs :
       /\ cpu[c].pc # "idle" => ENABLED CpuStep(c)
       /\ cpu[c].steps <= 3
       /\ cpu[c].steps = (CASE cpu[c].pc = "copy" -> 1
                            [] cpu[c].pc = "commit" -> 2
                            [] cpu[c].pc = "ret" ->
                                 (IF cpu[c].emitted = 1 THEN 3
                                  ELSE IF cpu[c].full THEN 1 ELSE 0)
                            [] OTHER -> 0)

\* a submission met a full ring that the consumer has never drained
C12_Witness ==
    \E c \in CPUs :
       /\ cpu[c].pc = "ret"
       /\ cpu[c].full
       /\ \A m \in Maps : obsLog[m] = <<>>

\* C13: no program changes the socket or the context it looks at, and every
\* program that has returned has returned 0, whichever path it took.
C13_KernelStateUntouched ==
    /\ kmem = KernelInit
    /\ \A c \in CPUs : cpu[c].retval \in {-1, 0}
    /\ \A c \in CPUs : cpu[c].pc = "ret" => ProbeReturn(cpu[c].rc) = 0

\* one program has returned 0 while another, on a socket whose family read
\* faulted, found the ring full
C13_Witness ==
    \E c, d \in CPUs :
       /\ cpu[c].pc = "idle" /\ cpu[c].retval = 0
       /\ cpu[d].pc = "ret" /\ cpu[d].full /\ cpu[d].fails # {}

\* the original statement of C14: no field of the record is populated before
\* the reservation has been made
C14_NothingPopulatedBeforeReserve ==
    \A c \in CPUs :
       cpu[c].pc = "output" => cpu[c].event \in {ZeroEventT, ZeroProbeEvent}

\* C14 (amended): the record is populated on the program's stack first;
\* bpf_ringbuf_output then reserves exactly sizeof(record) bytes, copies the
\* complete record into the reserved slot and commits it, so a slot holds
\* either nothing of the record or all of it.
C14_BuiltThenReservedThenCopied ==
    /\ \A c \in CPUs :
          cpu[c].pc = "output"
            => /\ cpu[c].event \notin {NoEvent, ZeroEventT, ZeroProbeEvent}
               /\ \A m \in Maps : \A r \in Slots(m) : r.owner = c => ~r.busy
    /\ \A m \in Maps : \A r \in Slots(m) :
          /\ r.len = (IF r.prog \in ConnProgs THEN SizeofEventT
                      ELSE SizeofProbeEvent)
          /\ r.data \in {Stale, r.built}
          /\ r.committed => r.data = r.built
          /\ r.busy => /\ cpu[r.owner].pos = r.pos
                       /\ cpu[r.owner].event = r.built
                       /\ cpu[r.owner].pc \in {"copy", "commit"}
                       /\ (r.data = Stale) = (cpu[r.owner].pc = "copy")

\* a slot is reserved and still unwritten while its record is complete on
\* the stack of the program
C14_Witness ==
    \E m \in Maps : \E r \in Slots(m) :
       /\ r.busy
       /\ r.data = Stale
       /\ cpu[r.owner].event = r.built
       /\ r.built.pid # 0

AddrFields == {"saddr", "daddr", "saddr_v6", "daddr_v6"}

\* C15: for a family that is neither 2 nor 10 no address is read and the
\* ConnEvent is emitted all the same, with saddr, daddr, saddr_v6 and
\* daddr_v6 all zero.
C15_UnknownFamilyLeavesAddressesZero ==
    /\ \A r \in EmittedConn :
          r.data.family \notin {2, 10}
            => /\ r.data.saddr = Zero(4) /\ r.data.daddr = Zero(4)
               /\ r.data.saddr_v6 = Zero(16) /\ r.data.daddr_v6 = Zero(16)
               /\ r.fails \cap AddrFields = {}
    /\ \A c \in CPUs :
          (cpu[c].prog \in ConnProgs /\ SockMem(cpu[c].arg).skc_family \notin {2, 10})
            => /\ cpu[c].pc \in {"output", "copy", "commit", "ret"}
               /\ cpu[c].event.family \in {0, SockMem(cpu[c].arg).skc_family}
               /\ cpu[c].event.saddr = Zero(4) /\ cpu[c].event.daddr = Zero(4)
               /\ cpu[c].event.saddr_v6 = Zero(16)
               /\ cpu[c].event.daddr_v6 = Zero(16)
               /\ cpu[c].pc = "ret" => cpu[c].emitted = 1 \/ cpu[c].full

\* a record of family 1 emitted from a socket whose address fields are set
C15_Witness ==
    \E r \in EmittedConn :
       /\ r.arg = "skx"
       /\ r.data.family = 1
       /\ SockMem(r.arg).skc_rcv_saddr # Zero(4)
       /\ SockMem(r.arg).skc_v6_daddr # Zero(16)
       /\ r.data.saddr = Zero(4)
       /\ r.data.daddr_v6 = Zero(16)

\* "connect" and "close" in a 16-byte field, the rest null
TagConnect == <<99, 111, 110, 110, 101, 99, 116, 0, 0, 0, 0, 0, 0, 0, 0, 0>>

TagClose == <<99, 108, 111, 115, 101, 0, 0, 0, 0, 0, 0, 0, 0, 0, 0, 0>>

\* C16: every ConnEvent of probe_tcp_connect carries "connect" followed by
\* null bytes and every ConnEvent of probe_tcp_close carries "close"
\* followed by null bytes, on every path.
C16_TagNamesTheProbe ==
    /\ \A r \in EmittedConn :
          r.data.typ = (IF r.prog = "probe_tcp_connect" THEN TagConnect
                        ELSE TagClose)
    /\ \A c \in CPUs :
          /\ cpu[c].prog = "probe_tcp_connect" => cpu[c].event.typ = TagConnect
          /\ cpu[c].prog = "probe_tcp_close" => cpu[c].event.typ = TagClose

\* a connect record emitted although every read faulted
C16_Witness ==
    \E r \in EmittedConn :
       /\ r.prog = "probe_tcp_connect"
       /\ r.fails = {"sport", "dport", "family"}
       /\ r.data.typ = TagConnect

\* C17: when the reads succeed, a record of family 10 holds the socket's
\* 16-byte local address in saddr_v6 and remote address in daddr_v6, and a
\* record of family 2 holds the socket's 4-byte local address in saddr and
\* remote address in daddr.
C17_AddressesVerbatim ==
    \A r \in EmittedConn :
       /\ (r.data.family = 10 /\ "saddr_v6" \notin r.fails)
            => r.data.saddr_v6 = SockMem(r.arg).skc_v6_rcv_saddr
       /\ (r.data.family = 10 /\ "daddr_v6" \notin r.fails)
            => r.data.daddr_v6 = SockMem(r.arg).skc_v6_daddr
       /\ (r.data.family = 2 /\ "saddr" \notin r.fails)
            => r.data.saddr = SockMem(r.arg).skc_rcv_saddr
       /\ (r.data.family = 2 /\ "daddr" \notin r.fails)
            => r.data.daddr = SockMem(r.arg).skc_daddr

\* an IPv4 connect record with distinct local and remote addresses
C17_Witness ==
    \E r \in EmittedConn :
       /\ r.prog = "probe_tcp_connect"
       /\ r.fails = {}
       /\ r.data.family = 2
       /\ r.data.saddr = <<10, 0, 0, 1>>
       /\ r.data.daddr = <<10, 0, 0, 2>>

NoTag(e) == [e EXCEPT !.typ = Zero(16)]

\* C18: on the same CPU, socket and read outcomes, probe_tcp_connect and
\* probe_tcp_close build records that agree in pid, sport, dport, family and
\* the four addresses and differ in the tag.
C18_EncodersAgree ==
    \A c \in CPUs :
       /\ cpu[c].prog = "probe_tcp_connect"
            => /\ NoTag(cpu[c].event)
                    = NoTag(probe_tcp_close_event(c, cpu[c].arg, cpu[c].fails))
               /\ cpu[c].event.typ
                    # probe_tcp_close_event(c, cpu[c].arg, cpu[c].fails).typ
       /\ cpu[c].prog = "probe_tcp_close"
            => /\ NoTag(cpu[c].event)
                    = NoTag(probe_tcp_connect_event(c, cpu[c].arg, cpu[c].fails))
               /\ cpu[c].event.typ
                    # probe_tcp_connect_event(c, cpu[c].arg, cpu[c].fails).typ

\* probe_tcp_close has built a record of an IPv4 socket with one read faulted
C18_Witness ==
    \E c \in CPUs :
       /\ cpu[c].prog = "probe_tcp_close"
       /\ cpu[c].arg = "sk4"
       /\ cpu[c].fails = {"daddr"}
       /\ cpu[c].event.saddr = <<10, 0, 0, 1>>
       /\ cpu[c].event.daddr = Zero(4)

\* C19: every FlowEvent that reaches a ring has 1 <= data_len <= 65535, the
\* 16-bit data_len of its context, and reason = 0.
C19_FlowDataLenRangeAndReasonZero ==
    \A m \in Maps : \A r \in Slots(m) :
       r.prog = "trace_tcp_probe"
         => /\ r.built.data_len \in 1..65535
            /\ r.built.reason = 0
            /\ r.data # Stale
                 => r.data.data_len \in 1..65535 /\ r.data.reason = 0

\* the largest 16-bit data_len has been emitted
C19_Witness ==
    \E r \in EmittedFlow :
       /\ r.data.data_len = 65535
       /\ r.data.reason = 0

====
